---- MODULE Spec2Model ----
(***************************************************************************)
(* A model of CameraPoseEstimator (OPTAR, no-marker single camera raw      *)
(* estimator): the match filter/merger, the matcher in front of it and the *)
(* update operation with its gates and its carried-over estimate.          *)
(*                                                                         *)
(* Conventions.  Indices stored in a match (queryIdx, trainIdx) are        *)
(* 0-based as in the source; TLA+ sequences are 1-based, so keypoint k of  *)
(* the source is kp[k + 1].  The loop index i of filterMatches is kept     *)
(* 1-based (source i plus one).  Pixel positions are pairs <<x, y>>.       *)
(* Descriptor distances are floats in the source; the model keeps them as  *)
(* exact fractions <<numerator, denominator>> in lowest terms.             *)
(***************************************************************************)
EXTENDS Integers, Sequences, FiniteSets, TLC

VARIABLES
    params,                          \* the members written by setupParameters
    transformFixedCameraToWorld,     \* constructor argument
    lastPoseEstimate,
    lastEstimateMatchesNumber,
    lastEstimateReprojectionError,
    didComputeEstimate,
    ret,                             \* <<value returned by the last update>>, <<>> before it
    obs,                             \* what the last update computed on its way
    accepted,                        \* history: pose and stamp of the last update that returned 0
    arcoreKeypoints,
    fixedKeypoints,
    arcoreDescriptors,
    fixedDescriptors,
    matches,                         \* the matcher's output, filterMatches' input
    goodMatches,                     \* filterMatches' output argument
    i,                               \* outer loop index of filterMatches
    pc,                              \* position of the function under study
    group,                           \* the last iteration of the ambiguity loop
    refiltered,                      \* filterMatches applied to its own output
    inputMatches,                    \* fixMatchesDepthOrDrop's first argument
    kinectDepthImg,                  \* the depth image it repairs in place
    outputMatches,                   \* its output argument
    calledWith,                      \* history: the depth image as it was handed over
    repairs,                         \* history: one record per turn of its loop
    featuresMemory,                  \* the features held by the shared FeaturesMemory
    seed,                            \* the solver's random seed, NoSeed when it is not fixed
    callbackRet                      \* <<value returned by the last featuresCallback>>, <<>> before it

estimatorVars == <<transformFixedCameraToWorld, lastPoseEstimate,
                   lastEstimateMatchesNumber, lastEstimateReprojectionError,
                   didComputeEstimate>>
callVars == <<ret, obs, accepted, callbackRet>>
frameVars == <<arcoreKeypoints, fixedKeypoints, arcoreDescriptors, fixedDescriptors>>
filterVars == <<matches, goodMatches, i, pc, group, refiltered>>
depthVars == <<inputMatches, kinectDepthImg, outputMatches, calledWith, repairs>>
vars == <<params, estimatorVars, callVars, frameVars, filterVars, depthVars, featuresMemory, seed>>

None == "none"

(***************************************************************************)
(* Bounds of the model.                                                    *)
(***************************************************************************)
MaxMatches == 4          \* longest match list given to filterMatches alone
MaxDescriptors == 3      \* most descriptors on either side given to the matcher
MaxKeypoints == 5        \* most mobile keypoints in a frame given to update
MaxStamp == 2            \* timestamps of the frames are 1 .. MaxStamp
MaxDepthMatches == 3     \* longest match list given to fixMatchesDepthOrDrop alone

(***************************************************************************)
(* Exact fractions for the float distance of a match.                      *)
(***************************************************************************)
RECURSIVE Gcd(_, _)
Gcd(a, b) == IF b = 0 THEN a ELSE Gcd(b, a % b)

Rat(n, d) == LET g == Gcd(n, d) IN IF g = 0 THEN <<0, 1>> ELSE <<n \div g, d \div g>>

RatAdd(a, b) == Rat(a[1] * b[2] + b[1] * a[2], a[2] * b[2])

RatDiv(a, k) == Rat(a[1], a[2] * k)

\* a <= t for a fraction a and an integer threshold t
RatLeq(a, t) == a[1] <= t * a[2]

RatLess(a, b) == a[1] * b[2] < b[1] * a[2]

(***************************************************************************)
(* Pixel geometry: cv::norm(p - q) <= keypointMinDistThreshold, compared   *)
(* through the squares.                                                    *)
(***************************************************************************)
\* Declared in the class header; the value is the pixel tolerance of both
\* comparisons of the ambiguity loop.
keypointMinDistThreshold == 5

Norm2(p, q) == (p[1] - q[1]) * (p[1] - q[1]) + (p[2] - q[2]) * (p[2] - q[2])

WithinMinDist(p, q) == Norm2(p, q) <= keypointMinDistThreshold * keypointMinDistThreshold

(***************************************************************************)
(* findOrbMatches: cv::BFMatcher(NORM_HAMMING)->match(query, train).  A    *)
(* binary descriptor is the set of its bits that are 1; the Hamming        *)
(* distance counts the bits in which two descriptors differ.  match()      *)
(* returns, for every query descriptor, its nearest train descriptor (the  *)
(* first of them when several are at the least distance), in query order,  *)
(* and nothing when a side is empty.  The function itself always returns 0.*)
(***************************************************************************)
Hamming(a, b) == Cardinality((a \ b) \cup (b \ a))

BestTrain(q, train) ==
    CHOOSE t \in 1..Len(train) :
        /\ \A u \in 1..Len(train) : Hamming(q, train[t]) <= Hamming(q, train[u])
        /\ \A u \in 1..(t - 1) : Hamming(q, train[u]) > Hamming(q, train[t])

\* a matcher that reports every descriptor pair instead of the best per query
findOrbMatches_allPairs(query, train) ==
    [r |-> 0,
     matches |->
        [k \in 1..(Len(query) * Len(train)) |->
            LET q == ((k - 1) \div Len(train)) + 1
                t == ((k - 1) % Len(train)) + 1
            IN  [queryIdx |-> q - 1, trainIdx |-> t - 1,
                 distance |-> <<Hamming(query[q], train[t]), 1>>]]]

findOrbMatches(query, train) ==
    [r |-> 0,
     matches |->
        IF Len(train) = 0 THEN <<>>
        ELSE [q \in 1..Len(query) |->
                LET t == BestTrain(query[q], train)
                IN  [queryIdx |-> q - 1, trainIdx |-> t - 1,
                     distance |-> <<Hamming(query[q], train[t]), 1>>]]]

(***************************************************************************)
(* filterMatches.                                                          *)
(***************************************************************************)
\* First loop: keep the candidates with distance <= matchingThreshold.
ThresholdFilter_keepAll(ms, thr) == ms

ThresholdFilter(ms, thr) == SelectSeq(ms, LAMBDA m : RatLeq(m.distance, thr))

\* The inner loop over j = i .. size-1: indices of the matches whose mobile
\* keypoint is within the tolerance of the mobile keypoint of match i.
matchesWithSameOrigin(gm, at, akp) ==
    {j \in at..Len(gm) :
        WithinMinDist(akp[gm[at].queryIdx + 1], akp[gm[j].queryIdx + 1])}

\* Every member's fixed keypoint is compared with that of match i.
haveSameDestination(gm, at, mwso, fkp) ==
    \A j \in mwso :
        ~ (Norm2(fkp[gm[at].trainIdx + 1], fkp[gm[j].trainIdx + 1])
               > keypointMinDistThreshold * keypointMinDistThreshold)

\* goodMatches.erase(...) for every index of `gone`, ascending, each index
\* corrected by the number of elements already erased.
RECURSIVE EraseAll(_, _, _)
EraseAll(gm, gone, k) ==
    IF k > Len(gm) THEN <<>>
    ELSE IF k \in gone THEN EraseAll(gm, gone, k + 1)
         ELSE <<gm[k]>> \o EraseAll(gm, gone, k + 1)

RECURSIVE SumDistance(_, _)
SumDistance(gm, js) ==
    IF js = {} THEN <<0, 1>>
    ELSE LET j == CHOOSE x \in js : TRUE
         IN RatAdd(gm[j].distance, SumDistance(gm, js \ {j}))

averageDist(gm, mwso) == RatDiv(SumDistance(gm, mwso), Cardinality(mwso))

\* One iteration of the outer loop at index `at`: the list it leaves.
AmbiguityStep_keepRepresentative(gm, at, akp, fkp) ==
    LET mwso == matchesWithSameOrigin(gm, at, akp)
    IN  IF Cardinality(mwso) <= 1 THEN gm
        ELSE EraseAll([gm EXCEPT ![at].distance = averageDist(gm, mwso)],
                      mwso \ {at}, 1)

AmbiguityStep(gm, at, akp, fkp) ==
    LET mwso == matchesWithSameOrigin(gm, at, akp)
    IN  IF Cardinality(mwso) <= 1 THEN gm
        ELSE IF ~ haveSameDestination(gm, at, mwso, fkp)
             THEN EraseAll(gm, mwso, 1)
             ELSE EraseAll([gm EXCEPT ![at].distance = averageDist(gm, mwso)],
                           mwso \ {at}, 1)

\* for (i = 0; i < goodMatches.size(); i++): the size is read again at every
\* turn, and i advances also after an erase.
RECURSIVE AmbiguityLoop(_, _, _, _)
AmbiguityLoop(gm, at, akp, fkp) ==
    IF at > Len(gm) THEN gm
    ELSE AmbiguityLoop(AmbiguityStep(gm, at, akp, fkp), at + 1, akp, fkp)

filterMatches(ms, akp, fkp, thr) == AmbiguityLoop(ThresholdFilter(ms, thr), 1, akp, fkp)

(***************************************************************************)
(* Depth repair and back-projection.  A depth image is a function from the *)
(* pixels that hold a sample to the depth in millimetres; every pixel      *)
(* outside its domain reads 0.  All pixels of the model's images lie on    *)
(* one image row, where hypot(dx, dy) is |dx|.                             *)
(***************************************************************************)
Abs(x) == IF x < 0 THEN 0 - x ELSE x

PixelDist(p, q) == Abs(p[1] - q[1])

DepthAt(img, p) == IF p \in DOMAIN img THEN img[p] ELSE 0

\* the pixel of `cands` that comes first in scan order
FirstPixel(cands) == CHOOSE p \in cands : \A q \in cands : p[1] <= q[1]

\* utils: the nearest pixel with a nonzero value at most maxDist away, the
\* pixel itself when there is none.
findNearestNonZeroPixel(img, p, maxDist) ==
    LET nz == {q \in DOMAIN img : img[q] # 0 /\ PixelDist(p, q) <= maxDist}
        nearest == {q \in nz : \A o \in nz : PixelDist(p, q) <= PixelDist(p, o)}
    IN  IF nz = {} THEN p ELSE FirstPixel(nearest)

\* utils: the pixel with the lowest nonzero value whose distance from p is
\* between minRadius and maxRadius, the pixel itself when there is none.
findLowestNonZeroInRing(img, p, maxRadius, minRadius) ==
    LET ring == {q \in DOMAIN img : /\ img[q] # 0
                                     /\ PixelDist(p, q) >= minRadius
                                     /\ PixelDist(p, q) <= maxRadius}
        lowest == {q \in ring : \A o \in ring : img[q] <= img[o]}
    IN  IF ring = {} THEN p ELSE FirstPixel(lowest)

\* lines 1108-1110 taking the highest instead of the lowest value of the ring
DepthSource_highestInRing(img, p) ==
    LET nnz == findNearestNonZeroPixel(img, p, 100)
        nnzDist == PixelDist(nnz, p)
        ring == {q \in DOMAIN img : /\ img[q] # 0
                                     /\ PixelDist(p, q) >= nnzDist
                                     /\ PixelDist(p, q) <= nnzDist + 10}
        highest == {q \in ring : \A o \in ring : img[q] >= img[o]}
    IN  IF ring = {} THEN p ELSE FirstPixel(highest)

\* lines 1108-1110 with a ring of 20 pixels
DepthSource_widerRing(img, p) ==
    LET nnz == findNearestNonZeroPixel(img, p, 100)
        nnzDist == PixelDist(nnz, p)
    IN  findLowestNonZeroInRing(img, p, nnzDist + 20, nnzDist)

\* lines 1108-1110: the pixel whose value is copied to the match's pixel
DepthSource(img, p) ==
    LET nnz == findNearestNonZeroPixel(img, p, 100)
        nnzDist == PixelDist(nnz, p)
    IN  findLowestNonZeroInRing(img, p, nnzDist + 10, nnzDist)

\* line 1113, right-hand side: the value written back at the match's pixel
FixedDepth(img, p) == DepthAt(img, DepthSource(img, p))

WriteDepth(img, p, d) ==
    IF p \in DOMAIN img THEN [img EXCEPT ![p] = d]
    ELSE [q \in DOMAIN img \cup {p} |-> IF q = p THEN d ELSE img[q]]

\* lines 1100-1125: the loop over the input matches from index k on; the
\* image is repaired in place and the matches with nonzero depth are kept.
RECURSIVE fixMatchesDepthOrDrop(_, _, _, _)
fixMatchesDepthOrDrop(ms, fkp, img, k) ==
    IF k > Len(ms) THEN [r |-> 0, outputMatches |-> <<>>, kinectDepthImg |-> img]
    ELSE LET imgPos == fkp[ms[k].trainIdx + 1]
             img2 == WriteDepth(img, imgPos, FixedDepth(img, imgPos))
             rest == fixMatchesDepthOrDrop(ms, fkp, img2, k + 1)
         IN  [rest EXCEPT !.outputMatches =
                 IF DepthAt(img2, imgPos) = 0 THEN @ ELSE <<ms[k]>> \o @]

\* utils get3dPoint, along the one image row of the model: the pinhole
\* inverse projection of pixel x at depth z (millimetres) to metres times
\* 1000 * focalLengthX, kept exact.
get3dPoint(x, depth_mm, focalLengthX, principalPointX) ==
    [x |-> (x - principalPointX) * depth_mm, z |-> depth_mm * focalLengthX]

\* lines 1148-1165 reading the depth at the mobile pixel of the match
get3dPositionsAndImagePositions_depthAtMobilePixel(ms, fkp, akp, img, focalLengthX, principalPointX) ==
    [r |-> 0,
     matches3dPos |-> [k \in 1..Len(ms) |->
                         get3dPoint(fkp[ms[k].trainIdx + 1][1],
                                    DepthAt(img, akp[ms[k].queryIdx + 1]),
                                    focalLengthX, principalPointX)],
     matchesImgPos |-> [k \in 1..Len(ms) |-> akp[ms[k].queryIdx + 1]]]

\* lines 1148-1165: one 3D point and one mobile pixel per match, in order
get3dPositionsAndImagePositions(ms, fkp, akp, img, focalLengthX, principalPointX) ==
    [r |-> 0,
     matches3dPos |-> [k \in 1..Len(ms) |->
                         get3dPoint(fkp[ms[k].trainIdx + 1][1],
                                    DepthAt(img, fkp[ms[k].trainIdx + 1]),
                                    focalLengthX, principalPointX)],
     matchesImgPos |-> [k \in 1..Len(ms) |-> akp[ms[k].queryIdx + 1]]]

(***************************************************************************)
(* Poses.  The model works along the vertical axis: a pose is the rigid    *)
(* map x |-> r * x + t of that line, r = 1 or -1 for an optical axis along *)
(* or against the axis, t the position.  Composition and inversion are     *)
(* those of rigid maps; a default-constructed pose has r = 0.              *)
(***************************************************************************)
Pose(r, t) == [r |-> r, t |-> t]

\* utils invertPose
invertPose(p) == Pose(p.r, 0 - p.r * p.t)

\* tf2::doTransform(pose, out, transform): the pose seen from the parent frame
doTransform(p, transform) == Pose(transform.r * p.r, transform.r * p.t + transform.t)

\* lines 610-617: angle in degrees between the z axis and the pose's own z
computeAngleFromZAxis(p) == IF p.r = 1 THEN 0 ELSE 180

(***************************************************************************)
(* Configurations (the values setupParameters stores) and idle values.     *)
(***************************************************************************)
Config(thr, minMatches) ==
    [matchingThreshold |-> thr,
     minimumMatchesNumber |-> minMatches,
     reprojectionErrorDiscardThreshold |-> 2,
     maxPoseHeight |-> 2,
     minPoseHeight |-> 1,
     phoneOrientationDifferenceThreshold_deg |-> 90,
     enableFeaturesMemory |-> FALSE]

FilterConfigs == {Config(2, 4)}

\* `group` before any iteration: index 0 is no index of the 1-based list
NoGroup == [before |-> <<>>, at |-> 0, after |-> <<>>]

\* a default-constructed geometry_msgs::PoseStamped
NoPoseStamped == [pose |-> Pose(0, 0), stamp |-> 0]

\* `obs` before any update, and the fields an update did not come to compute
NoObs ==
    [params |-> Config(0, 0), nFiltered |-> 0, nGood |-> 0,
     solverCalls |-> 0, solverPoints |-> 0,
     usePreviousEstimate |-> FALSE, guess |-> [rvec |-> 0, tvec |-> 0],
     rb |-> FALSE, nInliers |-> 0,
     posed |-> FALSE, reprojectionError |-> 0, cameraPose_fixedCameraFrame |-> Pose(0, 0),
     calls |-> <<>>, culled |-> 0, threw |-> FALSE,
     frame |-> <<>>, carried |-> <<>>, before |-> <<>>, memoryAtMatching |-> {},
     saved |-> <<>>, savedFor |-> <<>>, savedPos |-> <<>>,
     appended |-> <<>>]

\* the solver's generator left as the library seeds it: any answer at any call
NoSeed == [fixed |-> FALSE, cold |-> <<>>, refinesGuess |-> FALSE]

\* The members update reads and writes, before the first update.
FreshEstimate ==
    /\ lastPoseEstimate = NoPoseStamped
    /\ lastEstimateMatchesNumber = 0
    /\ lastEstimateReprojectionError = 0
    /\ didComputeEstimate = FALSE
    /\ ret = <<>>
    /\ callbackRet = <<>>
    /\ obs = NoObs
    /\ accepted = NoPoseStamped

IdleEstimator ==
    /\ transformFixedCameraToWorld = Pose(1, 0)
    /\ FreshEstimate

\* no fixMatchesDepthOrDrop call under study
IdleDepth ==
    /\ inputMatches = <<>>
    /\ kinectDepthImg = <<>>
    /\ outputMatches = <<>>
    /\ calledWith = <<>>
    /\ repairs = <<>>

(***************************************************************************)
(* FilterSpec: filterMatches on its own, on every list the matcher can     *)
(* hand it for at most MaxMatches mobile keypoints: one candidate per      *)
(* mobile keypoint, in the order of the keypoints, to any fixed keypoint   *)
(* and at any of three distances.                                          *)
(***************************************************************************)
\* Mobile keypoints on one row: all within the tolerance of each other, each
\* within the tolerance of the next only, close pairs far from each other,
\* and all further apart than the tolerance.
ArcoreNear(n) == [k \in 1..n |-> <<k - 1, 0>>]
ArcoreChain(n) == [k \in 1..n |-> <<4 * (k - 1), 0>>]
ArcorePairs(n) == [k \in 1..n |-> <<20 * ((k - 1) \div 2) + 4 * ((k - 1) % 2), 0>>]
ArcoreSpread(n) == [k \in 1..n |-> <<8 * (k - 1), 0>>]

ArcoreLayouts ==
    UNION {{ArcoreNear(n), ArcoreChain(n), ArcorePairs(n), ArcoreSpread(n)} :
              n \in 0..MaxMatches}

\* Fixed keypoints: 0 and 1 close, 1 and 2 close, 0 and 2 apart.
FixedLayouts == { << <<0, 0>>, <<4, 0>>, <<8, 0>> >> }

CandidateDistances == { <<1, 1>>, <<2, 1>>, <<3, 1>> }

\* what BFMatcher::match can return for nq mobile and nt fixed descriptors
MatchLists(nq, nt) ==
    {[k \in 1..nq |-> [queryIdx |-> k - 1, trainIdx |-> c[k][1], distance |-> c[k][2]]] :
        c \in [1..nq -> (0..(nt - 1)) \X CandidateDistances]}

InitFilter ==
    /\ params \in FilterConfigs
    /\ IdleEstimator
    /\ arcoreKeypoints \in ArcoreLayouts
    /\ fixedKeypoints \in FixedLayouts
    /\ arcoreDescriptors = <<>>
    /\ fixedDescriptors = <<>>
    /\ matches \in MatchLists(Len(arcoreKeypoints), Len(fixedKeypoints))
    /\ goodMatches = <<>>
    /\ i = 0
    /\ pc = "filterMatches"
    /\ group = NoGroup
    /\ refiltered = None
    /\ IdleDepth
    /\ featuresMemory = {}
    /\ seed = NoSeed

\* lines 792-800: the threshold loop fills goodMatches.
FilterThreshold ==
    /\ pc = "filterMatches"
    /\ goodMatches' = ThresholdFilter(matches, params.matchingThreshold)
    /\ i' = 1
    /\ pc' = "loop"
    /\ UNCHANGED <<seed, depthVars, featuresMemory, params, estimatorVars, callVars, frameVars, matches, group, refiltered>>

\* lines 804-858: one turn of the outer loop.
FilterIterate ==
    /\ pc = "loop"
    /\ i <= Len(goodMatches)
    /\ goodMatches' = AmbiguityStep(goodMatches, i, arcoreKeypoints, fixedKeypoints)
    /\ group' = [before |-> goodMatches, at |-> i, after |-> goodMatches']
    /\ i' = i + 1
    /\ UNCHANGED <<seed, depthVars, featuresMemory, params, estimatorVars, callVars, frameVars, matches, pc, refiltered>>

\* line 881: the loop condition fails and the function returns 0.
FilterReturn ==
    /\ pc = "loop"
    /\ i > Len(goodMatches)
    /\ pc' = "done"
    /\ UNCHANGED <<seed, depthVars, featuresMemory, params, estimatorVars, callVars, frameVars, matches, goodMatches, i,
                   group, refiltered>>

\* filterMatches called again, on the list it returned.
FilterAgain ==
    /\ pc = "done"
    /\ refiltered' = filterMatches(goodMatches, arcoreKeypoints, fixedKeypoints,
                                   params.matchingThreshold)
    /\ pc' = "refiltered"
    /\ UNCHANGED <<seed, depthVars, featuresMemory, params, estimatorVars, callVars, frameVars, matches, goodMatches, i,
                   group>>

NextFilter == FilterThreshold \/ FilterIterate \/ FilterReturn \/ FilterAgain

FilterSpec == InitFilter /\ [][NextFilter]_vars

(***************************************************************************)
(* Properties of filterMatches (FilterSpec).                               *)
(***************************************************************************)
Origin(m) == arcoreKeypoints[m.queryIdx + 1]
Destination(m) == fixedKeypoints[m.trainIdx + 1]

Contradicting(m1, m2) ==
    /\ WithinMinDist(Origin(m1), Origin(m2))
    /\ ~ WithinMinDist(Destination(m1), Destination(m2))

\* C6: the list filterMatches returns holds no two matches whose mobile
\* keypoints are within keypointMinDistThreshold of each other while their
\* fixed keypoints are further apart than that.
C6_NoContradictingSurvivors ==
    pc \in {"done", "refiltered"} =>
        \A a, b \in 1..Len(goodMatches) :
            a # b => ~ Contradicting(goodMatches[a], goodMatches[b])

\* C7: filterMatches applied to its own output returns that output unchanged.
C7_FilterIdempotent ==
    pc = "refiltered" => refiltered = goodMatches

\* The members of the group the iteration recorded in `group` worked on, and
\* the two lists the claim allows it to leave.
GroupMembers ==
    {j \in group.at..Len(group.before) :
        WithinMinDist(Origin(group.before[group.at]), Origin(group.before[j]))}

KeptIndices(gone) == {k \in 1..Len(group.before) : k \notin gone}

\* the list `group.before` restricted to the indices outside `gone`, in order
IsBeforeWithout(after, gone) ==
    /\ Len(after) = Cardinality(KeptIndices(gone))
    /\ \A k \in KeptIndices(gone) :
          LET pos == Cardinality({x \in KeptIndices(gone) : x <= k})
          IN  /\ after[pos].queryIdx = group.before[k].queryIdx
              /\ after[pos].trainIdx = group.before[k].trainIdx
              /\ k # group.at => after[pos].distance = group.before[k].distance

\* n * mean = sum of the members' distances, all over a common denominator
RECURSIVE ScaledSum(_, _)
ScaledSum(js, scale) ==
    IF js = {} THEN 0
    ELSE LET j == CHOOSE x \in js : TRUE
             d == group.before[j].distance
         IN  d[1] * (scale \div d[2]) + ScaledSum(js \ {j}, scale)

RECURSIVE DenProduct(_)
DenProduct(js) ==
    IF js = {} THEN 1
    ELSE LET j == CHOOSE x \in js : TRUE
         IN  group.before[j].distance[2] * DenProduct(js \ {j})

IsMeanOfGroup(d) ==
    LET scale == DenProduct(GroupMembers)
    IN  d[1] * scale * Cardinality(GroupMembers) = ScaledSum(GroupMembers, scale) * d[2]

MergedGroup ==
    /\ IsBeforeWithout(group.after, GroupMembers \ {group.at})
    /\ IsMeanOfGroup(group.after[group.at].distance)

RemovedGroup == IsBeforeWithout(group.after, GroupMembers)

SameDestinationAsRepresentative ==
    \A j \in GroupMembers :
        WithinMinDist(Destination(group.before[group.at]), Destination(group.before[j]))

PairwiseSameDestination ==
    \A j, k \in GroupMembers :
        WithinMinDist(Destination(group.before[j]), Destination(group.before[k]))

\* C9 as claimed: a group of more than one match is merged into the
\* representative (mean distance) exactly when the fixed keypoints of its
\* members are pairwise within the tolerance, and is removed whole otherwise.
C9_MergedIffPairwiseSameDestination ==
    (group.at > 0 /\ Cardinality(GroupMembers) > 1) =>
        IF PairwiseSameDestination THEN MergedGroup ELSE RemovedGroup

\* C9, amended: a group of more than one match is merged into the
\* representative (its index pair, distance = mean of the group's distances)
\* exactly when the fixed keypoint of every member is within the tolerance of
\* the representative's fixed keypoint; otherwise every member, the
\* representative included, is removed.
C9_MergedIffSameDestinationAsRepresentative ==
    (group.at > 0 /\ Cardinality(GroupMembers) > 1) =>
        IF SameDestinationAsRepresentative THEN MergedGroup ELSE RemovedGroup

\* a merge of three matches whose distances differ, and one where two
\* members disagree with each other but not with the representative
C9_Witness ==
    /\ group.at > 0
    /\ Cardinality(GroupMembers) = 3
    /\ SameDestinationAsRepresentative
    /\ ~ PairwiseSameDestination
    /\ group.after[group.at].distance[2] = 3
    /\ Len(group.after) = Len(group.before) - 2

PassingCandidates ==
    {c \in 1..Len(matches) : RatLeq(matches[c].distance, params.matchingThreshold)}

\* C10: every match filterMatches returns has the index pair of an input
\* candidate with distance <= matchingThreshold, has itself a distance
\* <= matchingThreshold, and its distance lies between the least and the
\* greatest distance of the candidates that passed the threshold (so no
\* candidate above the threshold has entered a mean).
C10_OutputWithinThreshold ==
    pc = "done" =>
        \A k \in 1..Len(goodMatches) :
            /\ RatLeq(goodMatches[k].distance, params.matchingThreshold)
            /\ \E c \in PassingCandidates :
                  /\ matches[c].queryIdx = goodMatches[k].queryIdx
                  /\ matches[c].trainIdx = goodMatches[k].trainIdx
            /\ \E lo, hi \in PassingCandidates :
                  /\ ~ RatLess(goodMatches[k].distance, matches[lo].distance)
                  /\ ~ RatLess(matches[hi].distance, goodMatches[k].distance)

\* a candidate above the threshold went in, and a match merged from
\* candidates of different distances came out
C10_Witness ==
    /\ pc = "done"
    /\ \E c \in 1..Len(matches) : c \notin PassingCandidates
    /\ \E k \in 1..Len(goodMatches) : goodMatches[k].distance[2] = 2

(***************************************************************************)
(* MatchSpec: the head of update (lines 285-304): findOrbMatches on two    *)
(* descriptor sets, then filterMatches on what it returned.                *)
(***************************************************************************)
DescriptorBits == {1, 2}

Descriptors == SUBSET DescriptorBits

DescriptorSets == UNION {[1..n -> Descriptors] : n \in 0..MaxDescriptors}

\* Fixed keypoints at x = 0, 8, 4, 12, ...: the first two apart, the third
\* within the tolerance of both.
FixedScene(n) == [k \in 1..n |-> <<8 * ((k - 1) % 2) + 4 * ((k - 1) \div 2), 0>>]

InitMatch ==
    /\ params \in FilterConfigs
    /\ IdleEstimator
    /\ arcoreDescriptors \in DescriptorSets
    /\ fixedDescriptors \in DescriptorSets
    /\ arcoreKeypoints \in {ArcoreSpread(Len(arcoreDescriptors)),
                            ArcoreChain(Len(arcoreDescriptors))}
    /\ fixedKeypoints = FixedScene(Len(fixedDescriptors))
    /\ matches = <<>>
    /\ goodMatches = <<>>
    /\ i = 0
    /\ pc = "findOrbMatches"
    /\ group = NoGroup
    /\ refiltered = None
    /\ IdleDepth
    /\ featuresMemory = {}
    /\ seed = NoSeed

\* lines 286-292: the matcher returns 0 and update goes on to the filter.
FindOrbMatches ==
    /\ pc = "findOrbMatches"
    /\ LET res == findOrbMatches(arcoreDescriptors, fixedDescriptors)
       IN  /\ matches' = res.matches
           /\ pc' = IF res.r < 0 THEN "failed" ELSE "filterMatches"
    /\ UNCHANGED <<seed, depthVars, featuresMemory, params, estimatorVars, callVars, frameVars, goodMatches, i, group,
                   refiltered>>

NextMatch == FindOrbMatches \/ FilterThreshold \/ FilterIterate \/ FilterReturn

MatchSpec == InitMatch /\ [][NextMatch]_vars

\* C8 as claimed: the matches filterMatches returns are one-to-one: no two
\* share a mobile keypoint (queryIdx) and no two share a fixed keypoint
\* (trainIdx).
C8_OneToOne ==
    pc = "done" =>
        \A a, b \in 1..Len(goodMatches) :
            a # b => /\ goodMatches[a].queryIdx # goodMatches[b].queryIdx
                     /\ goodMatches[a].trainIdx # goodMatches[b].trainIdx

\* C8, amended: of the matches update gets back from filterMatches no two
\* have the same mobile keypoint (queryIdx); a fixed keypoint (trainIdx) may
\* be shared by several of them.
C8_DistinctQueryIdx ==
    pc = "done" =>
        \A a, b \in 1..Len(goodMatches) :
            a # b => goodMatches[a].queryIdx # goodMatches[b].queryIdx

\* two matches with one fixed keypoint survive the filter
C8_Witness ==
    /\ pc = "done"
    /\ \E a, b \in 1..Len(goodMatches) :
          a # b /\ goodMatches[a].trainIdx = goodMatches[b].trainIdx

\* C14: once findOrbMatches has been given an empty mobile or an empty
\* fixed descriptor set, it has failed: it returned a negative value and
\* update does not go on to filter a match list.
C14_EmptyDescriptorsFail ==
    (pc # "findOrbMatches" /\ (arcoreDescriptors = <<>> \/ fixedDescriptors = <<>>))
        => pc = "failed"

(***************************************************************************)
(* DepthSpec: fixMatchesDepthOrDrop on its own, one turn of its loop per   *)
(* step.  Five pixels of one row hold a sample of 0 (unknown), 1000 or     *)
(* 2000 mm; the fixed keypoints sit on three of them.  From pixel 0 the    *)
(* pixel 95 is inside the search radius, the pixels 104 and 115 are        *)
(* outside it; 104 is inside the ring that starts at 95.                   *)
(***************************************************************************)
DepthPixels == {<<0, 0>>, <<6, 0>>, <<95, 0>>, <<104, 0>>, <<115, 0>>}

DepthValues == {0, 1000, 2000}

DepthMaps == [DepthPixels -> DepthValues]

DepthKeypoints == << <<0, 0>>, <<95, 0>>, <<104, 0>> >>

\* filtered match lists: one match per mobile keypoint, any fixed keypoint
DepthMatchLists ==
    UNION {{[k \in 1..n |-> [queryIdx |-> k - 1, trainIdx |-> c[k], distance |-> <<1, 1>>]] :
               c \in [1..n -> 0..(Len(DepthKeypoints) - 1)]} : n \in 0..MaxDepthMatches}

InitDepth ==
    /\ params \in FilterConfigs
    /\ IdleEstimator
    /\ arcoreKeypoints = <<>>
    /\ fixedKeypoints = DepthKeypoints
    /\ arcoreDescriptors = <<>>
    /\ fixedDescriptors = <<>>
    /\ matches = <<>>
    /\ goodMatches = <<>>
    /\ i = 0
    /\ pc = "fixMatchesDepthOrDrop"
    /\ group = NoGroup
    /\ refiltered = None
    /\ inputMatches \in DepthMatchLists
    /\ kinectDepthImg \in DepthMaps
    /\ outputMatches = <<>>
    /\ calledWith = kinectDepthImg
    /\ repairs = <<>>
    /\ featuresMemory = {}
    /\ seed = NoSeed

\* lines 1100-1101: the output is cleared and the loop starts.
FixEnter ==
    /\ pc = "fixMatchesDepthOrDrop"
    /\ outputMatches' = <<>>
    /\ i' = 1
    /\ pc' = "repair"
    /\ UNCHANGED <<seed, params, estimatorVars, callVars, frameVars, matches, goodMatches, group,
                   refiltered, inputMatches, kinectDepthImg, calledWith, repairs,
                   featuresMemory>>

\* lines 1103-1124: one turn of the loop, for the match at index i.
FixIterate ==
    /\ pc = "repair"
    /\ i <= Len(inputMatches)
    /\ LET imgPos == fixedKeypoints[inputMatches[i].trainIdx + 1]
           nnz == DepthSource(kinectDepthImg, imgPos)
           repaired == WriteDepth(kinectDepthImg, imgPos, FixedDepth(kinectDepthImg, imgPos))
           kept == DepthAt(repaired, imgPos) # 0
       IN  /\ kinectDepthImg' = repaired
           /\ outputMatches' = IF kept THEN Append(outputMatches, inputMatches[i])
                               ELSE outputMatches
           /\ repairs' = Append(repairs, [imgPos |-> imgPos, nnz |-> nnz,
                                          depth |-> DepthAt(repaired, imgPos),
                                          kept |-> kept])
    /\ i' = i + 1
    /\ UNCHANGED <<seed, params, estimatorVars, callVars, frameVars, matches, goodMatches, pc,
                   group, refiltered, inputMatches, calledWith, featuresMemory>>

\* line 1125: the loop condition fails and the function returns 0.
FixReturn ==
    /\ pc = "repair"
    /\ i > Len(inputMatches)
    /\ pc' = "repaired"
    /\ UNCHANGED <<seed, params, estimatorVars, callVars, frameVars, matches, goodMatches, i,
                   group, refiltered, depthVars, featuresMemory>>

NextDepth == FixEnter \/ FixIterate \/ FixReturn

DepthSpec == InitDepth /\ [][NextDepth]_vars

(***************************************************************************)
(* Claims about fixMatchesDepthOrDrop, checked under DepthSpec.            *)
(***************************************************************************)
MatchPixel(m) == fixedKeypoints[m.trainIdx + 1]

\* the pixels of the matches the loop has gone through
RepairedPixels == {repairs[k].imgPos : k \in 1..Len(repairs)}

\* the turn of the loop that wrote the value pixel p holds now
LastRepairAt(p) ==
    LET ks == {k \in 1..Len(repairs) : repairs[k].imgPos = p}
    IN  repairs[CHOOSE k \in ks : \A j \in ks : j <= k]

Dropped(m) == \A j \in 1..Len(outputMatches) : outputMatches[j] # m

\* C11 as claimed: a sample changes only at a match pixel that held zero,
\* and only to a nonzero value; every sample that was nonzero when the
\* function was called keeps its value.
C11_OnlyZeroSamplesChange ==
    \A q \in DOMAIN kinectDepthImg :
        kinectDepthImg[q] # calledWith[q] =>
            /\ q \in RepairedPixels
            /\ calledWith[q] = 0
            /\ kinectDepthImg[q] # 0

\* C11 as amended: a sample changes only at a match pixel; a sample that
\* was zero changes only to a nonzero value, and a sample that was nonzero
\* stays nonzero and never grows (it becomes the lowest nonzero value of the
\* ring around it).
C11_OnlyMatchPixelsChangeNeverUpwards ==
    \A q \in DOMAIN kinectDepthImg :
        /\ kinectDepthImg[q] # calledWith[q] => q \in RepairedPixels /\ kinectDepthImg[q] # 0
        /\ calledWith[q] # 0 => kinectDepthImg[q] <= calledWith[q]

\* the function has returned and lowered a valid sample at a match pixel
C11_Witness ==
    /\ pc = "repaired"
    /\ \E q \in RepairedPixels :
          calledWith[q] # 0 /\ kinectDepthImg[q] # 0 /\ kinectDepthImg[q] < calledWith[q]

\* C12: when the function has returned, every input match that is not in
\* the output has depth 0 at its fixed-side pixel in the depth map as the
\* function leaves it.
C12_DroppedMatchesHaveZeroDepth ==
    pc = "repaired" =>
        \A k \in 1..Len(inputMatches) :
            Dropped(inputMatches[k]) => DepthAt(kinectDepthImg, MatchPixel(inputMatches[k])) = 0

\* C13 as claimed: when the function has returned, the depth at the pixel
\* of every kept match is nonzero and is either the value the pixel had at
\* the call or a value copied from a pixel at most 100 pixels away.
C13_RepairedFromWithinSearchRadius ==
    pc = "repaired" =>
        \A j \in 1..Len(outputMatches) :
            LET p == MatchPixel(outputMatches[j])
            IN  /\ kinectDepthImg[p] # 0
                /\ \/ kinectDepthImg[p] = calledWith[p]
                   \/ /\ LastRepairAt(p).depth = kinectDepthImg[p]
                      /\ PixelDist(LastRepairAt(p).nnz, p) <= 100

\* C13 as amended: the value is copied from a pixel at most 110 pixels away,
\* the search radius plus the 10 pixels of the ring.
C13_RepairedFromWithinRadiusPlusRing ==
    pc = "repaired" =>
        \A j \in 1..Len(outputMatches) :
            LET p == MatchPixel(outputMatches[j])
            IN  /\ kinectDepthImg[p] # 0
                /\ \/ kinectDepthImg[p] = calledWith[p]
                   \/ /\ LastRepairAt(p).depth = kinectDepthImg[p]
                      /\ PixelDist(LastRepairAt(p).nnz, p) <= 100 + 10

\* a kept match whose depth comes from the ring beyond the search radius
C13_Witness ==
    /\ pc = "repaired"
    /\ \E j \in 1..Len(outputMatches) :
          LET p == MatchPixel(outputMatches[j])
          IN  /\ calledWith[p] = 0
              /\ kinectDepthImg[p] # 0
              /\ PixelDist(LastRepairAt(p).nnz, p) > 100

(***************************************************************************)
(* update, lines 254-512.  The solver, cv::solvePnPRansac, and             *)
(* cv::projectPoints are library code: the model draws what they hand back *)
(* (success flag, inlier indices, rvec/tvec, the mean reprojection error   *)
(* of the inliers) from small sets.  An OpenCV pose has rvec = 0 or 180    *)
(* degrees about the horizontal and tvec along the vertical axis.          *)
(***************************************************************************)
CvPose(rvec, tvec) == [rvec |-> rvec, tvec |-> tvec]

\* utils opencvPoseToEigenPose followed by buildRosPose
opencvPoseToRosPose(cv) == Pose(IF cv.rvec = 0 THEN 1 ELSE -1, cv.tvec)

\* utils tfPoseToOpenCvPose
tfPoseToOpenCvPose(p) == CvPose(IF p.r = 1 THEN 0 ELSE 180, p.t)

\* line 350
notEnoughGoodMatches_onlyMinimum(n, P) == n < P.minimumMatchesNumber

\* line 350 with the lower bound 4 alone
notEnoughGoodMatches_fixedMinimum(n, P) == n < 4

notEnoughGoodMatches(n, P) == n < 4 \/ n < P.minimumMatchesNumber

\* line 399
notEnoughInliers(n, P) == n < 4 \/ n < P.minimumMatchesNumber

\* lines 286-331: matcher, filter, depth repair and back-projection.  `r` is
\* the code of the first stage that reports failure, 0 when none does.
FrontEnd(P, f) ==
    LET m == findOrbMatches(f.arcoreDescriptors, f.fixedDescriptors)
        goodMatchesWithNull == filterMatches(m.matches, f.arcoreKeypoints,
                                             f.fixedKeypoints, P.matchingThreshold)
        fx == fixMatchesDepthOrDrop(goodMatchesWithNull, f.fixedKeypoints,
                                    f.kinectDepthImage, 1)
        pts == get3dPositionsAndImagePositions(fx.outputMatches, f.fixedKeypoints,
                                               f.arcoreKeypoints, fx.kinectDepthImg,
                                               f.focalLengthX, f.principalPointX)
    IN  [r |-> IF m.r < 0 THEN -1
               ELSE IF fx.r < 0 THEN -3
               ELSE IF pts.r < 0 THEN -4
               ELSE 0,
         matches |-> m.matches,
         goodMatchesWithNull |-> goodMatchesWithNull,
         goodMatches |-> fx.outputMatches,
         goodMatches3dPos |-> pts.matches3dPos,
         goodMatchesImgPos |-> pts.matchesImgPos,
         kinectDepthImage |-> fx.kinectDepthImg]

\* lines 396-488 with the gates in another order: orientation before height
Validate_orientationFirst(P, T, rb, nInliers, reprojectionError, cameraPose) ==
    LET r == IF rb THEN 0 ELSE -1
        phonePose_world == doTransform(cameraPose, T)
    IN  IF notEnoughInliers(nInliers, P) THEN 2
        ELSE IF r < 0 THEN -5
        ELSE IF reprojectionError > P.reprojectionErrorDiscardThreshold THEN 3
        ELSE IF computeAngleFromZAxis(cameraPose)
                    > P.phoneOrientationDifferenceThreshold_deg THEN 6
        ELSE IF phonePose_world.t > P.maxPoseHeight THEN 4
        ELSE IF phonePose_world.t < P.minPoseHeight THEN 5
        ELSE 0

\* lines 396-488 with the two height codes exchanged
Validate_heightCodesSwapped(P, T, rb, nInliers, reprojectionError, cameraPose) ==
    LET r == IF rb THEN 0 ELSE -1
        phonePose_world == doTransform(cameraPose, T)
    IN  IF notEnoughInliers(nInliers, P) THEN 2
        ELSE IF r < 0 THEN -5
        ELSE IF reprojectionError > P.reprojectionErrorDiscardThreshold THEN 3
        ELSE IF phonePose_world.t > P.maxPoseHeight THEN 5
        ELSE IF phonePose_world.t < P.minPoseHeight THEN 4
        ELSE IF computeAngleFromZAxis(cameraPose)
                    > P.phoneOrientationDifferenceThreshold_deg THEN 6
        ELSE 0

\* lines 396-488 with the orientation gate on the pose in the world frame
Validate_worldVertical(P, T, rb, nInliers, reprojectionError, cameraPose) ==
    LET r == IF rb THEN 0 ELSE -1
        phonePose_world == doTransform(cameraPose, T)
    IN  IF notEnoughInliers(nInliers, P) THEN 2
        ELSE IF r < 0 THEN -5
        ELSE IF reprojectionError > P.reprojectionErrorDiscardThreshold THEN 3
        ELSE IF phonePose_world.t > P.maxPoseHeight THEN 4
        ELSE IF phonePose_world.t < P.minPoseHeight THEN 5
        ELSE IF computeAngleFromZAxis(phonePose_world)
                    > P.phoneOrientationDifferenceThreshold_deg THEN 6
        ELSE 0

\* lines 396-488: what update returns once the solver has come back
Validate(P, T, rb, nInliers, reprojectionError, cameraPose) ==
    LET r == IF rb THEN 0 ELSE -1
        phonePose_world == doTransform(cameraPose, T)
    IN  IF notEnoughInliers(nInliers, P) THEN 2
        ELSE IF r < 0 THEN -5
        ELSE IF reprojectionError > P.reprojectionErrorDiscardThreshold THEN 3
        ELSE IF phonePose_world.t > P.maxPoseHeight THEN 4
        ELSE IF phonePose_world.t < P.minPoseHeight THEN 5
        ELSE IF computeAngleFromZAxis(cameraPose)
                    > P.phoneOrientationDifferenceThreshold_deg THEN 6
        ELSE 0

\* The four members of lines 495-498 as one record
Estimate(pose, n, err, did) ==
    [lastPoseEstimate |-> pose, lastEstimateMatchesNumber |-> n,
     lastEstimateReprojectionError |-> err, didComputeEstimate |-> did]

\* lines 495-498 moved in front of the orientation gate
StoreEstimate_beforeOrientationGate(prev, code, phonePose_world, nGood, reprojectionError) ==
    IF code \in {0, 6}
    THEN Estimate(phonePose_world, nGood, reprojectionError, TRUE)
    ELSE prev

\* lines 495-498 writing the pose only while there is no estimate yet
StoreEstimate_onlyFirstPose(prev, code, phonePose_world, nGood, reprojectionError) ==
    IF code = 0
    THEN Estimate(IF prev.didComputeEstimate THEN prev.lastPoseEstimate
                  ELSE phonePose_world, nGood, reprojectionError, TRUE)
    ELSE prev

\* lines 495-498 keeping the match number of the first estimate
StoreEstimate_keepsFirstMatchesNumber(prev, code, phonePose_world, nGood, reprojectionError) ==
    IF code = 0
    THEN Estimate(phonePose_world,
                  IF prev.didComputeEstimate THEN prev.lastEstimateMatchesNumber ELSE nGood,
                  reprojectionError, TRUE)
    ELSE prev

\* lines 495-498 with didComputeEstimate cleared by a call that does not
\* return 0
StoreEstimate_forgetsOnRejection(prev, code, phonePose_world, nGood, reprojectionError) ==
    IF code = 0
    THEN Estimate(phonePose_world, nGood, reprojectionError, TRUE)
    ELSE [prev EXCEPT !.didComputeEstimate = FALSE]

\* lines 495-498: reached only by the call that returns 0
StoreEstimate(prev, code, phonePose_world, nGood, reprojectionError) ==
    IF code = 0
    THEN Estimate(phonePose_world, nGood, reprojectionError, TRUE)
    ELSE prev

(***************************************************************************)
(* The features memory.  FeaturesMemory is a collaborator the estimator    *)
(* holds by shared pointer; update calls removeNonBackgroundFeatures and   *)
(* saveFeature on it.  The model keeps its features as a set: saving adds  *)
(* a feature, the cull removes the features whose pixel now reads a depth  *)
(* beyond the one they were saved with (something in front has gone).      *)
(***************************************************************************)
Feature(keypoint, descriptor, observerDistance_meters, observerDirection, depth) ==
    [keypoint |-> keypoint, descriptor |-> descriptor,
     observerDistance_meters |-> observerDistance_meters,
     observerDirection |-> observerDirection, depth |-> depth]

saveFeature(memory, feature) == memory \cup {feature}

removeNonBackgroundFeatures(memory, depthImage) ==
    {feature \in memory : DepthAt(depthImage, feature.keypoint) <= feature.depth}

\* the elements of a set of indices, in increasing order
Ascending(S) ==
    [k \in 1..Cardinality(S) |-> CHOOSE x \in S : Cardinality({y \in S : y < x}) = k - 1]

\* lines 586-600: the feature built for the inlier of index `inlier`.  The
\* 3D points are in 1/unit metres; the phone sits at cameraPose.t on the
\* optical axis.  A distance is kept as the two points it lies between.
InlierFeature(inlier, goodMatches3dPos, cameraPose_fixedCameraFrame, gm, keypoints, descriptors, kinectDepthImage, unit) ==
    LET feature3dPos == goodMatches3dPos[inlier + 1]
        phonePosition == [x |-> 0, z |-> cameraPose_fixedCameraFrame.t * unit]
        match == gm[inlier + 1]
        keypoint == keypoints[match.trainIdx + 1]
        descriptor == descriptors[match.trainIdx + 1]
        observerDirection == [x |-> feature3dPos.x - phonePosition.x,
                              z |-> feature3dPos.z - phonePosition.z]
    IN  Feature(keypoint, descriptor,
                [from |-> phonePosition, to |-> feature3dPos],
                observerDirection, DepthAt(kinectDepthImage, keypoint))

\* saveInliersToMemory with the loop of 583 over every match
saveInliersToMemory_everyMatch(inliers, goodMatches3dPos, cameraPose_fixedCameraFrame, gm, keypoints, descriptors, kinectDepthImage, unit) ==
    LET order == [k \in 1..Len(gm) |-> k - 1]
        outOfRange == {k \in 1..Len(order) :
                          \/ gm[order[k] + 1].trainIdx >= Len(keypoints)
                          \/ gm[order[k] + 1].trainIdx >= Len(descriptors)}
        n == IF outOfRange = {} THEN Len(order)
             ELSE (CHOOSE k \in outOfRange : \A j \in outOfRange : k <= j) - 1
    IN  [saved |-> [k \in 1..n |->
                      InlierFeature(order[k], goodMatches3dPos, cameraPose_fixedCameraFrame,
                                    gm, keypoints, descriptors, kinectDepthImage, unit)],
         savedFor |-> [k \in 1..n |-> gm[order[k] + 1]],
         savedPos |-> [k \in 1..n |-> goodMatches3dPos[order[k] + 1]],
         threw |-> outOfRange # {}]

\* lines 574-603.  One saveFeature call per inlier, in the order of the
\* inlier list; keypoints.at(match.trainIdx) (594) and
\* descriptors.row(match.trainIdx) (595) throw when the index is not below
\* the size of the container the caller passed, and the loop ends there.
\* `saved` lists the features handed to saveFeature, `savedFor` the match
\* (592) and `savedPos` the 3D point (586) of each of them.
saveInliersToMemory(inliers, goodMatches3dPos, cameraPose_fixedCameraFrame, gm, keypoints, descriptors, kinectDepthImage, unit) ==
    LET order == Ascending(inliers)
        outOfRange == {k \in 1..Len(order) :
                          \/ gm[order[k] + 1].trainIdx >= Len(keypoints)
                          \/ gm[order[k] + 1].trainIdx >= Len(descriptors)}
        n == IF outOfRange = {} THEN Len(order)
             ELSE (CHOOSE k \in outOfRange : \A j \in outOfRange : k <= j) - 1
    IN  [saved |-> [k \in 1..n |->
                      InlierFeature(order[k], goodMatches3dPos, cameraPose_fixedCameraFrame,
                                    gm, keypoints, descriptors, kinectDepthImage, unit)],
         savedFor |-> [k \in 1..n |-> gm[order[k] + 1]],
         savedPos |-> [k \in 1..n |-> goodMatches3dPos[order[k] + 1]],
         threw |-> outOfRange # {}]

\* featuresMemory after the saveFeature calls of 601
SaveAll(memory, saved) == memory \cup {saved[k] : k \in 1..Len(saved)}

\* lines 277-287 with the cull after the matcher
CallsUntilMatching_cullAfterMatching(P) ==
    <<"findOrbMatches">>
        \o (IF P.enableFeaturesMemory THEN <<"removeNonBackgroundFeatures">> ELSE <<>>)

\* lines 277-287: the calls update makes up to and including the matcher
CallsUntilMatching(P) ==
    (IF P.enableFeaturesMemory THEN <<"removeNonBackgroundFeatures">> ELSE <<>>)
        \o <<"findOrbMatches">>

\* lines 277-281 without the test of enableFeaturesMemory
MemoryAfterCull_ignoresSwitch(P, memory, kinectDepthImage) ==
    removeNonBackgroundFeatures(memory, kinectDepthImage)

\* lines 277-281: the memory when matching starts
MemoryAfterCull(P, memory, kinectDepthImage) ==
    IF P.enableFeaturesMemory THEN removeNonBackgroundFeatures(memory, kinectDepthImage)
    ELSE memory

(***************************************************************************)
(* Spec: an estimator over a sequence of setupParameters and update calls. *)
(* The fixed camera sees a scene of MaxKeypoints keypoints 10 pixels apart *)
(* on one row, keypoint k with descriptor {k}.  A frame brings n mobile    *)
(* keypoints: keypoint k describes scene keypoint k, the last one possibly *)
(* something that is not in the scene.                                     *)
(***************************************************************************)
Configs == {Config(2, 3), Config(2, 5)}

SceneKeypoints ==
    [k \in 1..MaxKeypoints |-> IF k = MaxKeypoints THEN <<200, 0>> ELSE <<10 * (k - 1), 0>>]

SceneDescriptors == [k \in 1..MaxKeypoints |-> {k}]

\* a descriptor further than matchingThreshold from every scene descriptor
ForeignDescriptor == 1..(MaxKeypoints + 2)

ScenePixels == {SceneKeypoints[k] : k \in 1..MaxKeypoints}

\* a valid sample at every keypoint
DepthFull == [p \in ScenePixels |-> 2000]

\* no valid sample at all
DepthEmpty == [p \in ScenePixels |-> 0]

\* holes at the first and at the last keypoint; the last keypoint is more
\* than 100 pixels from every valid sample
DepthHoles ==
    [p \in ScenePixels |-> IF p[1] \in {0, 200} THEN 0
                           ELSE IF p[1] = 20 THEN 1500 ELSE 2000]

\* one valid sample, 100 pixels left of the last keypoint
DepthFar == [p \in ScenePixels \cup {<<100, 0>>} |-> IF p[1] = 100 THEN 3000 ELSE 0]

DepthImages == {DepthFull, DepthEmpty, DepthHoles, DepthFar}

Frame(n, lastIsForeign, chained, depth) ==
    [arcoreKeypoints |-> IF chained THEN ArcoreChain(n) ELSE ArcoreSpread(n),
     arcoreDescriptors |-> [k \in 1..n |-> IF k = n /\ lastIsForeign
                                           THEN ForeignDescriptor ELSE {k}],
     fixedKeypoints |-> SceneKeypoints,
     fixedDescriptors |-> SceneDescriptors,
     kinectDepthImage |-> depth,
     focalLengthX |-> 500,
     principalPointX |-> 20]

\* every mobile side over the fully sampled scene, and the complete mobile
\* side over every depth image
Frames ==
    {Frame(n, foreign, chained, DepthFull) :
        n \in 0..MaxKeypoints, foreign \in BOOLEAN, chained \in BOOLEAN}
    \cup {Frame(MaxKeypoints, FALSE, FALSE, depth) : depth \in DepthImages}

\* what the solver may hand back in rvec and tvec
SolverPoses == {CvPose(rvec, tvec) : rvec \in {0, 180}, tvec \in -2..1}

\* means of the inliers' reprojection distances
ReprojectionErrors == {1, 3}

\* the fixed camera hangs 2 above the floor and looks down: its optical axis
\* runs against the world's vertical axis
CeilingCamera == Pose(-1, 2)

\* configurations with and without the features memory
MemoryConfig(enable) == [Config(2, 4) EXCEPT !.enableFeaturesMemory = enable]

MemoryConfigs == {MemoryConfig(TRUE), MemoryConfig(FALSE)}

\* the scene with everything 3000 mm away
DepthBack == [p \in ScenePixels |-> 3000]

\* four mobile keypoints that describe the scene keypoints 2..5: the fixed
\* index of a match is one above its mobile index
ShiftedFrame(depth) ==
    [Frame(MaxKeypoints - 1, FALSE, FALSE, depth) EXCEPT
        !.arcoreDescriptors = [k \in 1..(MaxKeypoints - 1) |-> {k + 1}]]

\* the complete mobile side with its first two keypoints describing the
\* scene keypoints 2 and 1: every index of a match is valid on either side
SwappedFrame(depth) ==
    [Frame(MaxKeypoints, FALSE, FALSE, depth) EXCEPT
        !.arcoreDescriptors = [k \in 1..MaxKeypoints |->
                                 IF k = 1 THEN {2} ELSE IF k = 2 THEN {1} ELSE {k}]]

MemoryFrames ==
    {Frame(MaxKeypoints, FALSE, FALSE, DepthFull),
     Frame(MaxKeypoints, FALSE, FALSE, DepthBack),
     Frame(3, FALSE, FALSE, DepthBack),
     ShiftedFrame(DepthFull)}

\* an accepted pose and one above maxPoseHeight
MemoryPoses == {CvPose(0, -1), CvPose(0, 1)}

\* the inlier index sets the solver may hand back for n correspondences:
\* every subset, or the first k for every k
InlierSets(n, everySubset) ==
    IF everySubset THEN SUBSET (0..(n - 1)) ELSE {0..(k - 1) : k \in 0..n}

\* cv::solvePnPRansac draws its samples from a random generator: under a
\* fixed seed what it hands back is a function of its arguments.  A seed is
\* modelled by that function: without a guess the solver answers cold[n]
\* for n correspondences; with a guess it answers the guess itself when
\* `refinesGuess` (the iteration started at the guess stays at the optimum
\* next to it) and cold[n] otherwise.  A seeded solver reports success,
\* with every correspondence an inlier and a mean reprojection error of 1.
Seed(cold, refinesGuess) == [fixed |-> TRUE, cold |-> cold, refinesGuess |-> refinesGuess]

\* the numbers of correspondences a seeded solver is called with
SeedSizes == {4, 5}

Seeds == {Seed(cold, refines) : cold \in [SeedSizes -> SolverPoses], refines \in BOOLEAN}

\* what the solver may hand back: the success flag,
SolverFlags(s) == IF s.fixed THEN {TRUE} ELSE BOOLEAN

\* the inlier indices of n correspondences,
SolverInliers(s, n, everySubset) == IF s.fixed THEN {0..(n - 1)} ELSE InlierSets(n, everySubset)

\* rvec and tvec, which hold `start.guess` when the call begins,
SolverAnswers(s, poses, start, n) ==
    IF s.fixed
    THEN {IF start.usePreviousEstimate /\ s.refinesGuess THEN start.guess ELSE s.cold[n]}
    ELSE poses

\* and the mean reprojection distance of the inliers (416-423)
SolverErrors(s, errors) == IF s.fixed THEN {1} ELSE errors

\* lines 375-384 with the flag taken from the outcome of the call before
WarmStart_afterAcceptedCall(did, last) ==
    [usePreviousEstimate |-> ret = <<0>>,
     guess |-> IF ret = <<0>> THEN tfPoseToOpenCvPose(last.pose) ELSE CvPose(0, 0)]

\* lines 375-384: usePreviousEstimate and the rvec, tvec the solver starts from
WarmStart(did, last) ==
    [usePreviousEstimate |-> did,
     guess |-> IF did THEN tfPoseToOpenCvPose(last.pose) ELSE CvPose(0, 0)]

\* the fixed camera stands on the floor and looks up
FloorCamera == Pose(1, 0)

\* what an estimator is driven with: the setupParameters arguments, the
\* frames, the answers of the solver, the mounting of the fixed camera;
\* `recordInputs` makes obs keep the arguments of the call, `recordBefore`
\* those of an earlier call
SpecWorld ==
    [configs |-> Configs, frames |-> Frames, everySubset |-> TRUE,
     poses |-> SolverPoses, errors |-> ReprojectionErrors, stamps |-> 1..MaxStamp,
     seeds |-> {NoSeed}, transforms |-> {CeilingCamera}, recordInputs |-> FALSE, recordBefore |-> FALSE]

\* frames whose match indices are valid on either side
StoreFrames ==
    {SwappedFrame(DepthFull), SwappedFrame(DepthBack),
     Frame(MaxKeypoints, FALSE, FALSE, DepthFull)}

StoreWorld ==
    [configs |-> MemoryConfigs, frames |-> StoreFrames, everySubset |-> FALSE,
     poses |-> MemoryPoses, errors |-> {1}, stamps |-> {1},
     seeds |-> {NoSeed}, transforms |-> {CeilingCamera}, recordInputs |-> TRUE, recordBefore |-> FALSE]

MemoryWorld ==
    [configs |-> MemoryConfigs, frames |-> MemoryFrames, everySubset |-> FALSE,
     poses |-> MemoryPoses, errors |-> ReprojectionErrors, stamps |-> {1},
     seeds |-> {NoSeed}, transforms |-> {CeilingCamera}, recordInputs |-> TRUE, recordBefore |-> FALSE]

\* the front end of update on every frame, under every configuration
FrontEndOf ==
    [P \in Configs \cup MemoryConfigs |->
        [f \in Frames \cup MemoryFrames \cup StoreFrames |-> FrontEnd(P, f)]]

InitIn(W) ==
    /\ params \in W.configs
    /\ transformFixedCameraToWorld \in W.transforms
    /\ FreshEstimate
    /\ arcoreKeypoints = <<>>
    /\ fixedKeypoints = <<>>
    /\ arcoreDescriptors = <<>>
    /\ fixedDescriptors = <<>>
    /\ matches = <<>>
    /\ goodMatches = <<>>
    /\ i = 0
    /\ pc = "idle"
    /\ group = NoGroup
    /\ refiltered = None
    /\ IdleDepth
    /\ featuresMemory = {}
    /\ seed \in W.seeds

Init == InitIn(SpecWorld)

\* lines 92-121
SetupParametersIn(W) ==
    /\ \E P \in W.configs : params' = P
    /\ UNCHANGED <<seed, depthVars, featuresMemory, estimatorVars, callVars, frameVars, filterVars>>

SetupParameters == SetupParametersIn(SpecWorld)

CurrentEstimate ==
    Estimate(lastPoseEstimate, lastEstimateMatchesNumber,
             lastEstimateReprojectionError, didComputeEstimate)

\* update leaves with `result` (<<code>> for a return, <<>> for an exception
\* that leaves it) having computed `o`; `e` holds the four members, `acc`
\* the accepted pose when the code is 0 and `memory` the features memory.
Return(result, o, e, acc, memory) ==
    /\ ret' = result
    /\ obs' = o
    /\ lastPoseEstimate' = e.lastPoseEstimate
    /\ lastEstimateMatchesNumber' = e.lastEstimateMatchesNumber
    /\ lastEstimateReprojectionError' = e.lastEstimateReprojectionError
    /\ didComputeEstimate' = e.didComputeEstimate
    /\ accepted' = IF result = <<0>> THEN acc ELSE accepted
    /\ featuresMemory' = memory
    /\ UNCHANGED <<seed, depthVars, params, transformFixedCameraToWorld, frameVars, filterVars>>

\* with `recordBefore`, obs.before holds one of the calls before the last
\* one, any of them: a call remembers the call before it or the call that
\* one remembered
EarlierCalls(W) ==
    IF W.recordBefore
    THEN {obs.before, <<[frame |-> obs.frame, params |-> obs.params,
                         carried |-> obs.carried, ret |-> ret, accepted |-> accepted]>>}
    ELSE {<<>>}

\* the arguments of a call and the estimate it finds, as obs keeps them;
\* `appended` is <<the features featuresCallback appended to the fixed
\* side>>, <<>> in a call that does not come from featuresCallback
Inputs(W, f, earlier) ==
    [frame |-> IF W.recordInputs THEN <<f>> ELSE <<>>,
     carried |-> IF W.recordInputs THEN <<CurrentEstimate>> ELSE <<>>,
     before |-> earlier,
     appended |-> <<>>]

\* One call of update, lines 254-512, on frame f, with `fe` what the stages
\* of lines 286-331 computed, `culled` the memory when matching starts and
\* `inputs` what obs keeps of the call's arguments.
\* The frame's timestamp is drawn where update first reads it, at line 463.
UpdateFrame(W, f, fe, culled, inputs) ==
        LET nGood == Len(fe.goodMatches)
            start == WarmStart(didComputeEstimate, lastPoseEstimate)
            o1 == [NoObs EXCEPT !.params = params,
                                !.frame = inputs.frame,
                                !.carried = inputs.carried,
                                !.before = inputs.before,
                                !.appended = inputs.appended,
                                !.memoryAtMatching = culled,
                                !.calls = CallsUntilMatching(params),
                                !.culled = Cardinality(featuresMemory \ culled),
                                !.nFiltered = Len(fe.goodMatchesWithNull),
                                !.nGood = nGood]
        IN  IF fe.r < 0 THEN Return(<<fe.r>>, o1, CurrentEstimate, accepted, culled)
            ELSE IF notEnoughGoodMatches(nGood, params)
                 THEN Return(<<1>>, o1, CurrentEstimate, accepted, culled)
            ELSE
              \E rb \in SolverFlags(seed),
                 inliers \in SolverInliers(seed, Len(fe.goodMatches3dPos), W.everySubset) :
                LET nInliers == Cardinality(inliers)
                    o2 == [o1 EXCEPT
                             !.solverCalls = 1,
                             !.solverPoints = Len(fe.goodMatches3dPos),
                             !.usePreviousEstimate = start.usePreviousEstimate,
                             !.guess = start.guess,
                             !.rb = rb,
                             !.nInliers = nInliers]
                IN  IF notEnoughInliers(nInliers, params)
                    THEN Return(<<2>>, o2, CurrentEstimate, accepted, culled)
                    ELSE
                      \E cv \in SolverAnswers(seed, W.poses, start, Len(fe.goodMatches3dPos)),
                         reprojectionError \in SolverErrors(seed, W.errors) :
                        LET cameraPose == invertPose(opencvPoseToRosPose(cv))
                            code == Validate(params, transformFixedCameraToWorld, rb,
                                             nInliers, reprojectionError, cameraPose)
                            o3 == [o2 EXCEPT
                                     !.posed = TRUE,
                                     !.reprojectionError = reprojectionError,
                                     !.cameraPose_fixedCameraFrame = cameraPose]
                        IN  IF code \in {-5, 3}
                            THEN Return(<<code>>, o3, CurrentEstimate, accepted, culled)
                            ELSE
                              \E timestamp \in W.stamps :
                                LET phonePose_world ==
                                      [pose |-> doTransform(cameraPose,
                                                            transformFixedCameraToWorld),
                                       stamp |-> timestamp]
                                    \* lines 492-493
                                    toMemory ==
                                      IF code = 0 /\ params.enableFeaturesMemory
                                      THEN saveInliersToMemory(
                                               inliers, fe.goodMatches3dPos, cameraPose,
                                               fe.goodMatches, f.arcoreKeypoints,
                                               f.arcoreDescriptors, fe.kinectDepthImage,
                                               1000 * f.focalLengthX)
                                      ELSE [saved |-> <<>>, savedFor |-> <<>>,
                                            savedPos |-> <<>>, threw |-> FALSE]
                                    o4 == [o3 EXCEPT
                                             !.calls = @ \o [k \in 1..Len(toMemory.saved)
                                                               |-> "saveFeature"],
                                             !.saved = toMemory.saved,
                                             !.savedFor = toMemory.savedFor,
                                             !.savedPos = toMemory.savedPos,
                                             !.threw = toMemory.threw]
                                    memory == SaveAll(culled, toMemory.saved)
                                IN  IF toMemory.threw
                                    THEN Return(<<>>, o4, CurrentEstimate, accepted, memory)
                                    ELSE Return(<<code>>, o4,
                                                StoreEstimate(CurrentEstimate, code,
                                                              phonePose_world, nGood,
                                                              reprojectionError),
                                                phonePose_world, memory)

UpdateIn(W) ==
    /\ \E f \in W.frames, earlier \in EarlierCalls(W) :
          UpdateFrame(W, f, FrontEndOf[params][f],
                      MemoryAfterCull(params, featuresMemory, f.kinectDepthImage),
                      Inputs(W, f, earlier))
    /\ UNCHANGED callbackRet

Update == UpdateIn(SpecWorld)

Next == SetupParameters \/ Update

Spec == Init /\ [][Next]_vars

(***************************************************************************)
(* MemorySpec: the same estimator with the features memory switched on and *)
(* off by setupParameters, over frames of the scene at two depths and one  *)
(* frame whose matches have a fixed index above their mobile index.        *)
(***************************************************************************)
InitMemory == InitIn(MemoryWorld)

SetupParametersMemory == SetupParametersIn(MemoryWorld)

UpdateMemory == UpdateIn(MemoryWorld)

NextMemory == SetupParametersMemory \/ UpdateMemory

MemorySpec == InitMemory /\ [][NextMemory]_vars

(***************************************************************************)
(* SeedSpec: the estimator with the solver's seed fixed at the start, under *)
(* every seed, over frames of 3, 4 and 5 matched keypoints.                 *)
(***************************************************************************)
SeedFrames == {Frame(n, FALSE, FALSE, DepthFull) : n \in SeedSizes \cup {3}}

SeedWorld ==
    [configs |-> Configs, frames |-> SeedFrames, everySubset |-> FALSE,
     poses |-> SolverPoses, errors |-> ReprojectionErrors, stamps |-> {1},
     seeds |-> Seeds, transforms |-> {CeilingCamera},
     recordInputs |-> TRUE, recordBefore |-> TRUE]

InitSeed == InitIn(SeedWorld)

SetupParametersSeed == SetupParametersIn(SeedWorld)

UpdateSeed == UpdateIn(SeedWorld)

NextSeed == SetupParametersSeed \/ UpdateSeed

SeedSpec == InitSeed /\ [][NextSeed]_vars

(***************************************************************************)
(* OrientationSpec: the estimator under either mounting of the fixed        *)
(* camera, looking down from the ceiling or up from the floor, over a frame *)
(* that reaches the solver and one that does not.                           *)
(***************************************************************************)
OrientationFrames == {Frame(n, FALSE, FALSE, DepthFull) : n \in {3, 5}}

OrientationWorld ==
    [configs |-> Configs, frames |-> OrientationFrames, everySubset |-> FALSE,
     poses |-> SolverPoses, errors |-> ReprojectionErrors, stamps |-> {1},
     seeds |-> {NoSeed}, transforms |-> {CeilingCamera, FloorCamera},
     recordInputs |-> FALSE, recordBefore |-> FALSE]

InitOrientation == InitIn(OrientationWorld)

SetupParametersOrientation == SetupParametersIn(OrientationWorld)

UpdateOrientation == UpdateIn(OrientationWorld)

NextOrientation == SetupParametersOrientation \/ UpdateOrientation

OrientationSpec == InitOrientation /\ [][NextOrientation]_vars

(***************************************************************************)
(* StoreSpec: the estimator with the features memory over frames in which   *)
(* the first two mobile keypoints describe the scene keypoints 2 and 1.     *)
(***************************************************************************)
InitStore == InitIn(StoreWorld)

SetupParametersStore == SetupParametersIn(StoreWorld)

UpdateStore == UpdateIn(StoreWorld)

NextStore == SetupParametersStore \/ UpdateStore

StoreSpec == InitStore /\ [][NextStore]_vars

(***************************************************************************)
(* CallbackSpec: the estimator driven through featuresCallback, lines       *)
(* 134-225, with the features memory switched on and off by                 *)
(* setupParameters, over the scene at two depths.                           *)
(***************************************************************************)
\* the elements of a set, each once, in one order
RECURSIVE SetToSeq(_)
SetToSeq(S) ==
    IF S = {} THEN <<>>
    ELSE LET x == CHOOSE y \in S : TRUE IN <<x>> \o SetToSeq(S \ {x})

Reverse(s) == [k \in 1..Len(s) |-> s[Len(s) + 1 - k]]

\* FeaturesMemory::getFeatures: every retained feature, once, in an order
\* that is the memory's own business; the model takes one order and its
\* reverse
getFeatures(memory) == {SetToSeq(memory), Reverse(SetToSeq(memory))}

\* lines 198-201: what featuresCallback reads from the memory
FeaturesFromMemory(P, memory) ==
    IF P.enableFeaturesMemory THEN getFeatures(memory) ELSE {<<>>}

\* lines 202-206: the fixed side that goes to update
WithMemoryFeatures(f, featuresFromMemory) ==
    [f EXCEPT
       !.fixedKeypoints = @ \o [k \in 1..Len(featuresFromMemory)
                                  |-> featuresFromMemory[k].keypoint],
       !.fixedDescriptors = @ \o [k \in 1..Len(featuresFromMemory)
                                    |-> featuresFromMemory[k].descriptor]]

\* line 209: r = 10 * update(...); an exception leaving update leaves
\* featuresCallback as well
CallbackResult(result) == IF result = <<>> THEN <<>> ELSE <<10 * result[1]>>

\* lines 209-224
CallbackUpdate(W, f, fe, featuresFromMemory) ==
    /\ UpdateFrame(W, f, fe,
                   MemoryAfterCull(params, featuresMemory, f.kinectDepthImage),
                   [Inputs(W, f, <<>>) EXCEPT !.appended = <<featuresFromMemory>>])
    /\ callbackRet' = CallbackResult(ret')

\* lines 178-182 and 190-194: the callback returns `code` without calling
\* update
CallbackFails(code) ==
    /\ callbackRet' = <<code>>
    /\ UNCHANGED <<ret, obs, accepted, seed, depthVars, featuresMemory, params,
                   estimatorVars, frameVars, filterVars>>

\* lines 134-225.  `decoded` is whether readReceivedMessages_features
\* (168) accepted the messages, `extracted` whether computeOrbFeatures (189)
\* succeeded on the fixed camera's image; f holds what they produced.
FeaturesCallbackIn(W) ==
    \E decoded \in BOOLEAN, extracted \in BOOLEAN :
       IF ~ decoded THEN CallbackFails(-1)
       ELSE IF ~ extracted THEN CallbackFails(-2)
       ELSE \E f \in W.frames :
              \E featuresFromMemory \in FeaturesFromMemory(params, featuresMemory) :
                 CallbackUpdate(W, WithMemoryFeatures(f, featuresFromMemory),
                                FrontEnd(params, WithMemoryFeatures(f, featuresFromMemory)),
                                featuresFromMemory)

CallbackFrames ==
    {Frame(MaxKeypoints, FALSE, FALSE, DepthFull),
     Frame(MaxKeypoints, FALSE, FALSE, DepthBack),
     Frame(3, FALSE, FALSE, DepthBack)}

CallbackWorld ==
    [configs |-> MemoryConfigs, frames |-> CallbackFrames, everySubset |-> FALSE,
     poses |-> MemoryPoses, errors |-> {1}, stamps |-> {1},
     seeds |-> {NoSeed}, transforms |-> {CeilingCamera},
     recordInputs |-> FALSE, recordBefore |-> FALSE]

InitCallback == InitIn(CallbackWorld)

SetupParametersCallback == SetupParametersIn(CallbackWorld)

FeaturesCallback == FeaturesCallbackIn(CallbackWorld)

NextCallback == SetupParametersCallback \/ FeaturesCallback

CallbackSpec == InitCallback /\ [][NextCallback]_vars

(***************************************************************************)
(* The getters, lines 1172-1211.                                           *)
(***************************************************************************)
getLastEstimateMatchesNumber == lastEstimateMatchesNumber

getLastEstimateReprojectionError == lastEstimateReprojectionError

getLastPoseEstimate == lastPoseEstimate

hasEstimate == didComputeEstimate

(***************************************************************************)
(* Claims about update, checked under Spec.  The gate conditions are       *)
(* restated here from what the last call computed (obs) and from the       *)
(* configuration it ran under (obs.params).                                *)
(***************************************************************************)
Returned(k) == ret = <<k>>

CandidateWorldPose ==
    doTransform(obs.cameraPose_fixedCameraFrame, transformFixedCameraToWorld)

AtLeast(n, least) == n >= 4 /\ n >= least

EnoughMatches == AtLeast(obs.nGood, obs.params.minimumMatchesNumber)

EnoughInliers == AtLeast(obs.nInliers, obs.params.minimumMatchesNumber)

ReprojectionOk == obs.reprojectionError <= obs.params.reprojectionErrorDiscardThreshold

NotTooHigh == CandidateWorldPose.t <= obs.params.maxPoseHeight

NotTooLow == CandidateWorldPose.t >= obs.params.minPoseHeight

OrientationOk ==
    computeAngleFromZAxis(obs.cameraPose_fixedCameraFrame)
        <= obs.params.phoneOrientationDifferenceThreshold_deg

SolverSucceeded == obs.solverCalls = 1 /\ obs.rb

\* C1: a completed update has returned a value of -5..6; 0 only when the
\* solver succeeded and all six gates passed, 1..6 only when the gate of
\* that number failed, a negative value only when the solver reported
\* failure.
C1_OutcomeCodes ==
    ret # <<>> =>
        /\ ret[1] \in -5..6
        /\ Returned(0) => /\ EnoughMatches /\ SolverSucceeded /\ EnoughInliers
                          /\ ReprojectionOk /\ NotTooHigh /\ NotTooLow /\ OrientationOk
        /\ Returned(1) => ~ EnoughMatches
        /\ Returned(2) => obs.solverCalls = 1 /\ ~ EnoughInliers
        /\ Returned(3) => obs.posed /\ ~ ReprojectionOk
        /\ Returned(4) => obs.posed /\ ~ NotTooHigh
        /\ Returned(5) => obs.posed /\ ~ NotTooLow
        /\ Returned(6) => obs.posed /\ ~ OrientationOk
        /\ ret[1] < 0 => ret[1] = -5 /\ obs.solverCalls = 1 /\ ~ obs.rb

C1_Witness == Returned(0) /\ obs.nInliers < obs.nGood

\* C2: the first failing gate decides.  update returns k in 1..6 only if
\* gates 1..k-1 passed and gate k failed, and a candidate of a successful
\* solver run that fails gate k after passing the gates before it gets k
\* whatever the gates after k say; in particular height above maxPoseHeight
\* after gates 1..3 passed gives 4 also when the orientation gate would fail.
C2_FirstFailingGateDecides ==
    ret # <<>> =>
        /\ Returned(2) => EnoughMatches
        /\ Returned(3) => EnoughMatches /\ EnoughInliers
        /\ Returned(4) => EnoughMatches /\ EnoughInliers /\ ReprojectionOk
        /\ Returned(5) => EnoughMatches /\ EnoughInliers /\ ReprojectionOk /\ NotTooHigh
        /\ Returned(6) => /\ EnoughMatches /\ EnoughInliers /\ ReprojectionOk
                          /\ NotTooHigh /\ NotTooLow
        /\ ~ EnoughMatches => Returned(1)
        /\ EnoughMatches /\ ~ EnoughInliers => Returned(2)
        /\ SolverSucceeded /\ EnoughMatches /\ EnoughInliers =>
              /\ ~ ReprojectionOk => Returned(3)
              /\ ReprojectionOk /\ ~ NotTooHigh => Returned(4)
              /\ ReprojectionOk /\ NotTooHigh /\ ~ NotTooLow => Returned(5)
              /\ ReprojectionOk /\ NotTooHigh /\ NotTooLow /\ ~ OrientationOk
                    => Returned(6)

C2_Witness == Returned(4) /\ ~ OrientationOk

\* C3: when fewer than max(4, minimumMatchesNumber) correspondences are
\* left after filtering and depth repair, update returns 1 without calling
\* the solver; whenever the solver is called it gets at least 4 points.
C3_TooFewMatchesReturnOneWithoutSolver ==
    ret # <<>> =>
        /\ ~ AtLeast(obs.nGood, obs.params.minimumMatchesNumber)
              => Returned(1) /\ obs.solverCalls = 0
        /\ obs.solverCalls = 1 => obs.solverPoints >= 4

\* every match of a filtered list of at least 4 was dropped for its depth
C3_Witness == Returned(1) /\ obs.nFiltered >= 4 /\ obs.nGood = 0 /\ obs.solverCalls = 0

\* C4: a step in which update returns anything but 0 leaves the last pose
\* estimate, its match number, its reprojection error and the has-estimate
\* flag as they were.
C4_RejectionKeepsEstimate ==
    [][~ (ret' = <<0>>) =>
          /\ getLastPoseEstimate' = getLastPoseEstimate
          /\ getLastEstimateMatchesNumber' = getLastEstimateMatchesNumber
          /\ getLastEstimateReprojectionError' = getLastEstimateReprojectionError
          /\ hasEstimate' = hasEstimate]_vars

\* an update rejected at the last gate while an earlier estimate is held
C4_Witness ==
    /\ Returned(6)
    /\ hasEstimate
    /\ getLastPoseEstimate.pose # CandidateWorldPose

\* C5: once an update has returned 0, getLastPoseEstimate is the world pose
\* of the most recent update that returned 0, stamped with that call's
\* timestamp.
C5_LastPoseIsLastAccepted ==
    accepted # NoPoseStamped => getLastPoseEstimate = accepted

\* an accepted update that replaced an estimate of another pose
C5_Witness ==
    /\ Returned(0)
    /\ obs.usePreviousEstimate
    /\ obs.guess # tfPoseToOpenCvPose(getLastPoseEstimate.pose)
    /\ getLastPoseEstimate.pose = CandidateWorldPose

\* C15: an update whose solver call reported failure has returned -5,
\* whatever the number of inliers the solver left.
C15_SolverFailureReturnsMinusFive ==
    (obs.solverCalls = 1 /\ ~ obs.rb) => Returned(-5)

\* C16 as claimed: the parameters an instance works with never change
\* after its creation.
C16_ParametersFixedAtCreation == [][params' = params]_vars

\* a step in which update ran
UpdateStep == obs' # obs \/ ret' # ret

\* C16 as amended: setupParameters on an existing instance replaces the
\* parameters, and every update decides its gates with the values of the
\* most recent setupParameters call.
C16_UpdateUsesLatestParameters ==
    [][UpdateStep =>
          /\ (ret' = <<1>>) <=> ~ AtLeast(obs'.nGood, params'.minimumMatchesNumber)
          /\ (ret' = <<2>>) <=> /\ AtLeast(obs'.nGood, params'.minimumMatchesNumber)
                                /\ ~ AtLeast(obs'.nInliers, params'.minimumMatchesNumber)
          /\ ret' = <<3>> =>
                obs'.reprojectionError > params'.reprojectionErrorDiscardThreshold
          /\ ret' = <<0>> =>
                obs'.reprojectionError <= params'.reprojectionErrorDiscardThreshold]_vars

\* four matches were enough for an accepted estimate and are, after a
\* setupParameters call, too few for the last update
C16_Witness ==
    /\ hasEstimate
    /\ getLastEstimateMatchesNumber = 4
    /\ Returned(1)
    /\ obs.nGood = 4

\* C20 as claimed: after an update that returned 0 the stored match number
\* is the number of inliers of the accepted pose.
C20_MatchesNumberIsInlierCount ==
    Returned(0) => getLastEstimateMatchesNumber = obs.nInliers

\* C20 as amended: after an update that returned 0 the stored match number
\* is the number of correspondences given to the solver (the good matches,
\* inliers and outliers), and the stored error is the mean reprojection
\* error over the inliers.
C20_MatchesNumberIsGoodMatchesCount ==
    Returned(0) =>
        /\ getLastEstimateMatchesNumber = obs.nGood
        /\ getLastEstimateMatchesNumber = obs.solverPoints
        /\ getLastEstimateReprojectionError = obs.reprojectionError

\* an accepted estimate with an outlier among its matches
C20_Witness ==
    /\ Returned(0)
    /\ getLastEstimateMatchesNumber = obs.nGood
    /\ obs.nInliers = 4
    /\ obs.nGood = 5

(***************************************************************************)
(* Claims about update and the features memory, checked under MemorySpec.  *)
(***************************************************************************)
\* how often the update that computed o called `name`
NumCalls(o, name) == Cardinality({k \in 1..Len(o.calls) : o.calls[k] = name})

MemoryCalls == {"removeNonBackgroundFeatures", "saveFeature"}

\* C17: with enableFeaturesMemory set, an update that returned 0 called
\* saveFeature as many times as the solver reported inliers and an update
\* that returned another value did not call it; with enableFeaturesMemory
\* unset no update calls it.
C17_SaveFeatureOncePerInlier ==
    /\ (Returned(0) /\ obs.params.enableFeaturesMemory)
          => NumCalls(obs, "saveFeature") = obs.nInliers
    /\ (ret # <<>> /\ ~ Returned(0)) => NumCalls(obs, "saveFeature") = 0
    /\ ~ obs.params.enableFeaturesMemory => NumCalls(obs, "saveFeature") = 0

\* an accepted update that saved its four inliers and not its outlier
C17_Witness ==
    /\ Returned(0)
    /\ obs.params.enableFeaturesMemory
    /\ obs.nGood = 5
    /\ NumCalls(obs, "saveFeature") = 4
    /\ Cardinality(featuresMemory) >= 4

\* C18: with enableFeaturesMemory set, every update calls
\* removeNonBackgroundFeatures exactly once, as its first call and before
\* the matcher; with enableFeaturesMemory unset an update makes no call on
\* the features memory.
C18_CullOnceBeforeMatching ==
    obs.calls # <<>> =>
        IF obs.params.enableFeaturesMemory
        THEN /\ NumCalls(obs, "removeNonBackgroundFeatures") = 1
             /\ obs.calls[1] = "removeNonBackgroundFeatures"
             /\ \A k \in 1..Len(obs.calls) : obs.calls[k] = "findOrbMatches" => k > 1
        ELSE \A k \in 1..Len(obs.calls) : obs.calls[k] \notin MemoryCalls

\* an update whose cull removed a feature and that went on to the solver
C18_Witness ==
    /\ obs.params.enableFeaturesMemory
    /\ obs.culled > 0
    /\ obs.solverCalls = 1
    /\ obs.calls[1] = "removeNonBackgroundFeatures"

\* C19 as claimed: a step in which update returns 1 or 2 leaves the last
\* estimate and the contents of the features memory as they were.
C19_RejectionLeavesMemoryUntouched ==
    [][(UpdateStep /\ ret' \in {<<1>>, <<2>>}) =>
          /\ CurrentEstimate' = CurrentEstimate
          /\ featuresMemory' = featuresMemory]_vars

\* C19 as amended: a step in which update returns 1 or 2 leaves the last
\* estimate as it was and saves no feature; with enableFeaturesMemory set
\* the cull at the start of the call may have removed features, with it
\* unset the features memory is as it was.
C19_RejectionSavesNothing ==
    [][(UpdateStep /\ ret' \in {<<1>>, <<2>>}) =>
          /\ CurrentEstimate' = CurrentEstimate
          /\ NumCalls(obs', "saveFeature") = 0
          /\ featuresMemory' \subseteq featuresMemory
          /\ ~ params'.enableFeaturesMemory => featuresMemory' = featuresMemory]_vars

\* an update rejected for its inliers whose cull removed a feature
C19_Witness ==
    /\ Returned(2)
    /\ obs.params.enableFeaturesMemory
    /\ obs.culled > 0

\* C21: with every match index valid for the container it was produced from
\* (the matcher's own output), an update ends by returning an outcome and
\* has read no container beyond its end.
C21_UpdateReturnsWithoutOutOfRangeAccess ==
    obs.calls # <<>> => ~ obs.threw /\ Len(ret) = 1

(***************************************************************************)
(* Claims about update under a fixed solver seed, checked under SeedSpec.   *)
(***************************************************************************)
\* the earlier call that the last call is compared with
CallBefore == obs.before[1]

TwoCalls == obs.before # <<>> /\ CallBefore.frame # <<>>

SameInputsAndConfiguration ==
    /\ TwoCalls
    /\ CallBefore.frame = obs.frame
    /\ CallBefore.params = obs.params

SameOutcomeAndPose ==
    /\ CallBefore.ret = ret
    /\ ret = <<0>> => CallBefore.accepted = accepted

FilterLoopRemainderShrinks ==
    [][pc = "loop" /\ pc' = "loop"
          => Len(goodMatches') - i' < Len(goodMatches) - i]_vars

DepthRepairVisitsEachMatchOnce ==
    /\ Len(repairs) <= Len(inputMatches)
    /\ pc = "repaired" => Len(repairs) = Len(inputMatches)
    /\ \A k \in 1..Len(repairs) : repairs[k].imgPos = MatchPixel(inputMatches[k])

\* C23: every update call that was made has ended with an outcome, a code
\* of -5..6 (checked under MemorySpec, where an update is one step).
C23_EveryUpdateEndsWithAnOutcome ==
    obs.calls # <<>> => ret \in {<<code>> : code \in -5..6}

(***************************************************************************)
(* The orientation gate, checked under OrientationSpec.                     *)
(***************************************************************************)
\* the candidate of the last update came through every gate before the
\* orientation gate
PassedEarlierGates ==
    /\ obs.posed
    /\ EnoughMatches
    /\ EnoughInliers
    /\ SolverSucceeded
    /\ ReprojectionOk
    /\ NotTooHigh
    /\ NotTooLow

\* angle between the candidate's optical axis and the vertical of the world
WorldVerticalAngle == computeAngleFromZAxis(CandidateWorldPose)

\* angle between the candidate's optical axis and that of the fixed camera
FixedCameraAxisAngle == computeAngleFromZAxis(obs.cameraPose_fixedCameraFrame)

\* C24 as stated: an update returns 6 exactly when its candidate passed the
\* gates before and the angle between its optical axis and the world's
\* vertical exceeds phoneOrientationDifferenceThreshold_deg.
C24_RejectedBeyondWorldVerticalAngle ==
    obs.calls # <<>> =>
        (Returned(6) <=>
            /\ PassedEarlierGates
            /\ WorldVerticalAngle > obs.params.phoneOrientationDifferenceThreshold_deg)

\* C24 amended: an update returns 6 exactly when its candidate passed the
\* gates before and the angle between its optical axis and the optical axis
\* of the fixed camera (the z axis of the frame the solver works in)
\* exceeds the threshold, whatever the mounting of the fixed camera.
C24_RejectedBeyondFixedCameraAxisAngle ==
    obs.calls # <<>> =>
        (Returned(6) <=>
            /\ PassedEarlierGates
            /\ FixedCameraAxisAngle > obs.params.phoneOrientationDifferenceThreshold_deg)

\* under the ceiling camera a candidate within the threshold of the world's
\* vertical is rejected with 6
C24_Witness ==
    /\ Returned(6)
    /\ transformFixedCameraToWorld = CeilingCamera
    /\ WorldVerticalAngle <= obs.params.phoneOrientationDifferenceThreshold_deg
    /\ FixedCameraAxisAngle > obs.params.phoneOrientationDifferenceThreshold_deg

(***************************************************************************)
(* The warm start, checked under Spec.                                      *)
(***************************************************************************)
\* the world pose update computes from what the solver hands back (425-429,
\* 461-465)
PoseFromSolver(cv) ==
    doTransform(invertPose(opencvPoseToRosPose(cv)), transformFixedCameraToWorld)

\* C25: an update that calls the solver passes it a guess exactly when an
\* earlier update was accepted, and the guess is the accepted estimate in
\* the solver's own convention: a solver handing the guess back would make
\* update compute the previously accepted pose again.
C25_GuessIsLastEstimateInSolverConvention ==
    [][UpdateStep /\ obs'.solverCalls = 1
          => /\ obs'.usePreviousEstimate <=> accepted # NoPoseStamped
             /\ obs'.usePreviousEstimate
                    => PoseFromSolver(obs'.guess) = lastPoseEstimate.pose]_vars

(***************************************************************************)
(* featuresCallback, checked under CallbackSpec.                            *)
(***************************************************************************)
\* the update of the step was called by featuresCallback
CalledFromCallback == UpdateStep /\ obs'.appended # <<>>

\* C26: featuresCallback returns 0 when the update it called accepted the
\* estimate, and a negative value whenever it returns without an estimate:
\* a returned value is negative, or it is 0 and the update returned 0.
C26_ZeroWhenAcceptedNegativeOtherwise ==
    [][/\ callbackRet' # <<>>
            => \/ callbackRet'[1] < 0
               \/ callbackRet' = <<0>> /\ ret' = <<0>>
       /\ (CalledFromCallback /\ ret' = <<0>>) => callbackRet' = <<0>>]_vars

\* the features featuresCallback appended to the fixed side
AppendedFeatures == {obs.appended[1][k] : k \in 1..Len(obs.appended[1])}

\* C28: in a featuresCallback with enableFeaturesMemory set, the memory
\* features appended to the fixed-side keypoints and descriptors are the
\* contents of the memory after the cull of this frame.
C28_AppendedFeaturesAreMemoryAfterCull ==
    (obs.appended # <<>> /\ obs.params.enableFeaturesMemory)
        => AppendedFeatures = obs.memoryAtMatching

(***************************************************************************)
(* What saveInliersToMemory stores, checked under StoreSpec.                *)
(***************************************************************************)
\* the position of the phone saveInliersToMemory works with (589-590), in
\* the unit of the 3D points
PhonePosition ==
    [x |-> 0, z |-> obs.cameraPose_fixedCameraFrame.t * 1000 * obs.frame[1].focalLengthX]

\* the k-th stored feature carries keypoint and descriptor of the fixed
\* keypoint of its match
StoresFixedKeypoint(k) ==
    /\ obs.saved[k].keypoint = obs.frame[1].fixedKeypoints[obs.savedFor[k].trainIdx + 1]
    /\ obs.saved[k].descriptor = obs.frame[1].fixedDescriptors[obs.savedFor[k].trainIdx + 1]

\* the k-th stored feature carries keypoint and descriptor of the mobile
\* keypoint of its match
StoresMobileKeypoint(k) ==
    /\ obs.saved[k].keypoint = obs.frame[1].arcoreKeypoints[obs.savedFor[k].queryIdx + 1]
    /\ obs.saved[k].descriptor = obs.frame[1].arcoreDescriptors[obs.savedFor[k].queryIdx + 1]

\* C27: each feature saveInliersToMemory stores for an inlier carries the
\* keypoint and the descriptor of a keypoint that the inlier's match links,
\* the fixed one of index trainIdx or the mobile one of index queryIdx, and
\* its distance and direction are those from the phone's position in the
\* accepted pose to the inlier's 3D point.
C27_StoredFeatureBelongsToItsMatch ==
    \A k \in 1..Len(obs.saved) :
        /\ StoresFixedKeypoint(k) \/ StoresMobileKeypoint(k)
        /\ obs.saved[k].observerDistance_meters
              = [from |-> PhonePosition, to |-> obs.savedPos[k]]
        /\ obs.saved[k].observerDirection
              = [x |-> obs.savedPos[k].x - PhonePosition.x,
                 z |-> obs.savedPos[k].z - PhonePosition.z]

\* the same about the distance and the direction alone
StoredDistanceAndDirectionFromPose ==
    \A k \in 1..Len(obs.saved) :
        /\ obs.saved[k].observerDistance_meters
              = [from |-> PhonePosition, to |-> obs.savedPos[k]]
        /\ obs.saved[k].observerDirection
              = [x |-> obs.savedPos[k].x - PhonePosition.x,
                 z |-> obs.savedPos[k].z - PhonePosition.z]

(***************************************************************************)
(* hasEstimate, checked under Spec.                                         *)
(***************************************************************************)
\* C29: after any sequence of update and setupParameters calls hasEstimate
\* is true exactly when some earlier update returned 0: it is false until
\* the first such update and no operation resets it.
C29_HasEstimateSinceFirstAcceptedUpdate ==
    /\ [](hasEstimate <=> accepted # NoPoseStamped)
    /\ [][hasEstimate => hasEstimate']_vars

\* an estimator with an estimate whose last update was rejected and whose
\* parameters were replaced after it
C29_Witness ==
    /\ hasEstimate
    /\ Returned(2)
    /\ obs.usePreviousEstimate
    /\ params # obs.params

(***************************************************************************)
(* The depth of the kept matches, checked under DepthSpec.                  *)
(***************************************************************************)
\* what update (322-330) gets from get3dPositionsAndImagePositions for the
\* matches kept so far and the depth map as it is now
BackProjected ==
    get3dPositionsAndImagePositions(outputMatches, fixedKeypoints,
                                    ArcoreSpread(MaxDepthMatches), kinectDepthImg,
                                    500, 20).matches3dPos

\* C30: every match fixMatchesDepthOrDrop has kept has a nonzero depth at
\* its fixed-side pixel, during the loop and after it, whatever the later
\* turns of the loop wrote; so every 3D point back-projected from the kept
\* matches when the function has returned comes from a nonzero sample.
C30_KeptMatchesKeepNonzeroDepth ==
    /\ \A k \in 1..Len(outputMatches) :
          DepthAt(kinectDepthImg, MatchPixel(outputMatches[k])) # 0
    /\ pc = "repaired" =>
          \A k \in 1..Len(outputMatches) : BackProjected[k].z # 0

\* a kept match whose pixel held no sample at the call and was written
\* again by a later turn of the loop, with another match kept in between
C30_Witness ==
    /\ pc = "repaired"
    /\ \E a, b, c \in 1..Len(repairs) :
          /\ a < b /\ b < c
          /\ repairs[a].imgPos = repairs[c].imgPos
          /\ repairs[b].imgPos # repairs[a].imgPos
          /\ repairs[a].kept /\ repairs[b].kept /\ repairs[c].kept
          /\ calledWith[repairs[a].imgPos] = 0

====
